---------------------------- MODULE Spec2Model ----------------------------
(***************************************************************************)
(* BIRD route-import coordinator of the route module                       *)
(* (modules/route/coordinator/service.go).                                 *)
(*                                                                         *)
(* Every SetupConfig invocation is a process c \in Calls.  A call that     *)
(* reaches processBirdImport creates one importHolder, one per-import      *)
(* context and owns one gateway connection, so holders, contexts and       *)
(* connections are all identified by the call that created them.           *)
(***************************************************************************)
EXTENDS Naturals, Sequences, FiniteSets

\* ------------------------------------------------------------------ bounds
MaxCalls == 2          \* SetupConfig invocations
NumKeys == 2           \* distinct (config-name, instance) targets
MaxRoutes == 2         \* static routes of one configuration
MaxBatch == 2          \* routes of one onUpdate batch
MaxReaderCalls == 2    \* callbacks the reader makes during one export.Run
MaxStreams == 2        \* FeedRIB streams opened for one holder

Calls == 1..MaxCalls
Keys == 1..NumKeys
NoHolder == 0

\* The static routes of a configuration, named by their position in it.
RouteLists == {[i \in 1..n |-> i] : n \in 0..MaxRoutes}

\* Lengths of the batches the reader hands to onUpdate.
BatchLens == 1..MaxBatch

VARIABLES
    pc,            \* per call: position inside SetupConfig/setupConfig/processBirdImport
    cfg,           \* per call: [key, routes, sockets] of the request
    rpcLog,        \* per call: unary/stream-open RPCs issued by setup, in order
    importsMu,     \* holder of the registry mutex (0: free)
    imports,       \* the registry: key -> holder (0: absent)
    installLog,    \* calls in the order they passed the registry critical section
    quitCh,        \* TRUE once the quit channel is closed
    conn,          \* per call: "none" | "open" | "closed" (SHUTDOWN)
    connCloses,    \* per call: number of conn.Close invocations
    ctxDone,       \* per call: per-import context cancelled
    cancelCalls,   \* per call: number of cancel invocations
    sup,           \* per holder: supervisor position
    streamActive,  \* per holder: runBirdImportLoop's streamActive local
    runErr,        \* per holder: err of export.Run awaiting classification ("none": none)
    currentStream, \* per holder: index of the stream held by the slot
    streamCloses,  \* per holder: CloseAndRecv count of every stream opened
    rd,            \* per holder: reader position inside export.Run
    bidx,          \* per holder: idx of onUpdate's loop
    readerCalls,   \* per holder: callbacks made by the reader in this Run
    upstream       \* per holder: successful Send/FlushRoutes seen upstream in this Run

setupVars == <<pc, cfg, rpcLog>>
registryVars == <<importsMu, imports, installLog>>
resourceVars == <<conn, connCloses, ctxDone, cancelCalls>>
readerVars == <<rd, bidx, readerCalls, upstream>>
streamVars == <<currentStream, streamCloses>>
vars == <<pc, cfg, rpcLog, importsMu, imports, installLog, quitCh, conn,
          connCloses, ctxDone, cancelCalls, sup, streamActive, runErr,
          currentStream, streamCloses, rd, bidx, readerCalls, upstream>>

\* ----------------------------------------------------------------- helpers
NoCfg == [key |-> 1, routes |-> <<>>, sockets |-> FALSE]

Rpc(name, arg, ok) == [name |-> name, arg |-> arg, ok |-> ok]

UpdateCall(routes) == [op |-> "update", routes |-> routes]
FlushCall == [op |-> "flush", routes |-> <<>>]
SendEvent(r) == [op |-> "Send", route |-> r]
FlushEvent == [op |-> "FlushRoutes", route |-> 0]

Last(s) == s[Len(s)]

Init ==
    /\ pc = [c \in Calls |-> "idle"]
    /\ cfg = [c \in Calls |-> NoCfg]
    /\ rpcLog = [c \in Calls |-> <<>>]
    /\ importsMu = 0
    /\ imports = [k \in Keys |-> NoHolder]
    /\ installLog = <<>>
    /\ quitCh = FALSE
    /\ conn = [c \in Calls |-> "none"]
    /\ connCloses = [c \in Calls |-> 0]
    /\ ctxDone = [c \in Calls |-> FALSE]
    /\ cancelCalls = [c \in Calls |-> 0]
    /\ sup = [c \in Calls |-> "none"]
    /\ streamActive = [c \in Calls |-> FALSE]
    /\ runErr = [c \in Calls |-> "none"]
    /\ currentStream = [c \in Calls |-> 0]
    /\ streamCloses = [c \in Calls |-> <<>>]
    /\ rd = [c \in Calls |-> "off"]
    /\ bidx = [c \in Calls |-> 0]
    /\ readerCalls = [c \in Calls |-> <<>>]
    /\ upstream = [c \in Calls |-> <<>>]


\* ------------------------------------------------- SetupConfig / setupConfig
RECURSIVE InsertRoutesContinue(_, _, _)
\* Faulty variant of InsertRoutes: the loop goes on after a failing InsertRoute.
InsertRoutesContinue(routes, i, fail) ==
    IF i > Len(routes) THEN <<>>
    ELSE <<Rpc("InsertRoute", routes[i], i # fail)>> \o InsertRoutesContinue(routes, i + 1, fail)

RECURSIVE InsertRoutes(_, _, _)
\* The static-route loop from index i; fail is the index of the InsertRoute
\* that returns an error (0: none does).  The loop stops at the first error.
InsertRoutes(routes, i, fail) ==
    IF i > Len(routes) THEN <<>>
    ELSE IF i = fail THEN <<Rpc("InsertRoute", routes[i], FALSE)>>
    ELSE <<Rpc("InsertRoute", routes[i], TRUE)>> \o InsertRoutes(routes, i + 1, fail)

\* The RPCs setupConfig and the head of processBirdImport issue on the fresh
\* connection: InsertRoute per route, FlushRoutes, and FeedRIB when BIRD
\* sockets are configured.  fail numbers the failing RPC (0: none).
SetupRpcs(config, fail) ==
    LET n == Len(config.routes)
        ins == InsertRoutes(config.routes, 1, fail)
    IN  IF fail \in 1..n THEN ins
        ELSE IF fail = n + 1 THEN Append(ins, Rpc("FlushRoutes", 0, FALSE))
        ELSE IF ~config.sockets THEN Append(ins, Rpc("FlushRoutes", 0, TRUE))
        ELSE ins \o <<Rpc("FlushRoutes", 0, TRUE), Rpc("FeedRIB", 0, fail # n + 2)>>

\* Failure points of a configuration: 0 (none), an InsertRoute, the
\* FlushRoutes, or the initial FeedRIB.
FailPoints(config) ==
    0..(Len(config.routes) + (IF config.sockets THEN 2 ELSE 1))

\* Faulty variant of SetupRun: the predecessor is torn down before the initial
\* FeedRIB, so a failing FeedRIB leaves the key's import cancelled.
SetupRunTeardownFirst(c, config, fail) ==
    LET n == Len(config.routes)
        old == imports[config.key] IN
    /\ cfg' = [cfg EXCEPT ![c] = config]
    /\ rpcLog' = [rpcLog EXCEPT ![c] = SetupRpcs(config, fail)]
    /\ IF fail # 0
       THEN /\ pc' = [pc EXCEPT ![c] = "internal"]
            /\ conn' = [conn EXCEPT ![c] = "open"]
            /\ ctxDone' = [h \in Calls |->
                  IF fail = n + 2 /\ h \in {c, old} THEN TRUE ELSE ctxDone[h]]
            /\ cancelCalls' = [h \in Calls |->
                  IF fail = n + 2 /\ h \in {c, old} THEN cancelCalls[h] + 1 ELSE cancelCalls[h]]
            /\ UNCHANGED <<connCloses, streamVars>>
       ELSE IF ~config.sockets
       THEN /\ pc' = [pc EXCEPT ![c] = "ok"]
            /\ conn' = [conn EXCEPT ![c] = "closed"]
            /\ connCloses' = [connCloses EXCEPT ![c] = @ + 1]
            /\ UNCHANGED <<ctxDone, cancelCalls, streamVars>>
       ELSE /\ pc' = [pc EXCEPT ![c] = "lock"]
            /\ conn' = [conn EXCEPT ![c] = "open"]
            /\ currentStream' = [currentStream EXCEPT ![c] = 1]
            /\ streamCloses' = [streamCloses EXCEPT ![c] = <<0>>]
            /\ UNCHANGED <<connCloses, ctxDone, cancelCalls>>

\* SetupConfig up to the registry lock: parse, dial, static prelude, the
\* check for BIRD sockets and the initial FeedRIB of processBirdImport.  All of
\* it works on the call's own connection and context.
SetupRun(c, config, fail) ==
    LET n == Len(config.routes) IN
    /\ cfg' = [cfg EXCEPT ![c] = config]
    /\ rpcLog' = [rpcLog EXCEPT ![c] = SetupRpcs(config, fail)]
    /\ IF fail # 0
       THEN \* INTERNAL; FeedRIB's failure path calls cancel()
            /\ pc' = [pc EXCEPT ![c] = "internal"]
            /\ conn' = [conn EXCEPT ![c] = "open"]
            /\ ctxDone' = [ctxDone EXCEPT ![c] = (fail = n + 2)]
            /\ cancelCalls' = [cancelCalls EXCEPT ![c] = IF fail = n + 2 THEN 1 ELSE 0]
            /\ UNCHANGED <<connCloses, streamVars>>
       ELSE IF ~config.sockets
       THEN \* no background stream: conn.Close(), return nil
            /\ pc' = [pc EXCEPT ![c] = "ok"]
            /\ conn' = [conn EXCEPT ![c] = "closed"]
            /\ connCloses' = [connCloses EXCEPT ![c] = @ + 1]
            /\ UNCHANGED <<ctxDone, cancelCalls, streamVars>>
       ELSE \* the holder is built around the initial stream
            /\ pc' = [pc EXCEPT ![c] = "lock"]
            /\ conn' = [conn EXCEPT ![c] = "open"]
            /\ currentStream' = [currentStream EXCEPT ![c] = 1]
            /\ streamCloses' = [streamCloses EXCEPT ![c] = <<0>>]
            /\ UNCHANGED <<connCloses, ctxDone, cancelCalls>>

\* Keys a new request may name.  Keys are interchangeable, so a request names
\* a key already used by an earlier request or the first unused one.
FreshKeys ==
    LET used == {cfg[d].key : d \in {d \in Calls : pc[d] # "idle"}}
    IN  {k \in Keys : \A j \in 1..(k - 1) : j \in used}

SetupConfig(c) ==
    /\ pc[c] = "idle"
    /\ \A d \in Calls : d < c => pc[d] # "idle"
    /\ \E k \in FreshKeys :
         \/ \* yaml.Unmarshal fails: INVALID_ARGUMENT
            /\ pc' = [pc EXCEPT ![c] = "invalid"]
            /\ cfg' = [cfg EXCEPT ![c] = [key |-> k, routes |-> <<>>, sockets |-> FALSE]]
            /\ UNCHANGED <<rpcLog, resourceVars, streamVars>>
         \/ \* grpc.NewClient fails: INTERNAL, no connection
            /\ pc' = [pc EXCEPT ![c] = "internal"]
            /\ cfg' = [cfg EXCEPT ![c] = [key |-> k, routes |-> <<>>, sockets |-> FALSE]]
            /\ UNCHANGED <<rpcLog, resourceVars, streamVars>>
         \/ \E rs \in RouteLists, s \in BOOLEAN :
              LET config == [key |-> k, routes |-> rs, sockets |-> s] IN
              \E fail \in FailPoints(config) : SetupRun(c, config, fail)
    /\ UNCHANGED <<registryVars, quitCh, runErr, sup, streamActive, readerVars>>

\* ------------------------------------------------------- processBirdImport
\* Faulty variant of InstallLock: the lookup misses the existing holder.
InstallLockNoLookup(c) ==
    /\ pc[c] = "lock"
    /\ importsMu = 0
    /\ importsMu' = c
    /\ pc' = [pc EXCEPT ![c] = "write"]
    /\ UNCHANGED <<cfg, rpcLog, imports, installLog, quitCh, runErr, resourceVars, sup,
                   streamActive, streamVars, readerVars>>

\* m.importsMu.Lock() and the lookup of the key.
InstallLock(c) ==
    /\ pc[c] = "lock"
    /\ importsMu = 0
    /\ importsMu' = c
    /\ pc' = [pc EXCEPT ![c] = IF imports[cfg[c].key] # NoHolder THEN "cancelOld" ELSE "write"]
    /\ UNCHANGED <<cfg, rpcLog, imports, installLog, quitCh, runErr, resourceVars, sup,
                   streamActive, streamVars, readerVars>>

\* Faulty variant of InstallCancelOld: the predecessor is not cancelled.
InstallCancelOldSkipped(c) ==
    /\ pc[c] = "cancelOld"
    /\ pc' = [pc EXCEPT ![c] = "closeOld"]
    /\ UNCHANGED <<cfg, rpcLog, registryVars, quitCh, runErr, resourceVars, sup,
                   streamActive, streamVars, readerVars>>

\* oldHolder.cancel()
InstallCancelOld(c) ==
    /\ pc[c] = "cancelOld"
    /\ LET old == imports[cfg[c].key] IN
         /\ ctxDone' = [ctxDone EXCEPT ![old] = TRUE]
         /\ cancelCalls' = [cancelCalls EXCEPT ![old] = @ + 1]
    /\ pc' = [pc EXCEPT ![c] = "closeOld"]
    /\ UNCHANGED <<cfg, rpcLog, registryVars, quitCh, runErr, conn, connCloses, sup,
                   streamActive, streamVars, readerVars>>

\* Faulty variant of InstallCloseOld: the predecessor's connection is left open.
InstallCloseOldSkipped(c) ==
    /\ pc[c] = "closeOld"
    /\ pc' = [pc EXCEPT ![c] = "write"]
    /\ UNCHANGED <<cfg, rpcLog, registryVars, quitCh, runErr, resourceVars, sup,
                   streamActive, streamVars, readerVars>>

\* oldHolder.conn.Close()
InstallCloseOld(c) ==
    /\ pc[c] = "closeOld"
    /\ LET old == imports[cfg[c].key] IN
         /\ conn' = [conn EXCEPT ![old] = "closed"]
         /\ connCloses' = [connCloses EXCEPT ![old] = @ + 1]
    /\ pc' = [pc EXCEPT ![c] = "write"]
    /\ UNCHANGED <<cfg, rpcLog, registryVars, quitCh, runErr, ctxDone, cancelCalls, sup,
                   streamActive, streamVars, readerVars>>

\* Faulty variant of InstallHolder: an existing entry of the key is kept.
InstallHolderKeepOld(c) ==
    /\ pc[c] = "write"
    /\ imports' = [imports EXCEPT ![cfg[c].key] = IF @ = NoHolder THEN c ELSE @]
    /\ installLog' = Append(installLog, c)
    /\ sup' = [sup EXCEPT ![c] = "preflight"]
    /\ streamActive' = [streamActive EXCEPT ![c] = TRUE]
    /\ importsMu' = 0
    /\ pc' = [pc EXCEPT ![c] = "ok"]
    /\ UNCHANGED <<cfg, rpcLog, quitCh, runErr, resourceVars, streamVars, readerVars>>

\* Faulty variant of InstallHolder: the supervisor is started, the registry
\* entry is not written.
InstallHolderNoWrite(c) ==
    /\ pc[c] = "write"
    /\ sup' = [sup EXCEPT ![c] = "preflight"]
    /\ streamActive' = [streamActive EXCEPT ![c] = TRUE]
    /\ importsMu' = 0
    /\ pc' = [pc EXCEPT ![c] = "ok"]
    /\ UNCHANGED <<cfg, rpcLog, imports, installLog, quitCh, runErr, resourceVars,
                   streamVars, readerVars>>

\* m.imports[key] = holder; go m.runBirdImportLoop(...); deferred Unlock; return nil.
InstallHolder(c) ==
    /\ pc[c] = "write"
    /\ imports' = [imports EXCEPT ![cfg[c].key] = c]
    /\ installLog' = Append(installLog, c)
    /\ sup' = [sup EXCEPT ![c] = "preflight"]
    /\ streamActive' = [streamActive EXCEPT ![c] = TRUE]
    /\ importsMu' = 0
    /\ pc' = [pc EXCEPT ![c] = "ok"]
    /\ UNCHANGED <<cfg, rpcLog, quitCh, runErr, resourceVars, streamVars, readerVars>>

\* ------------------------------------------------------- gRPC collaborators
\* errors.Is(err, context.Canceled) || errors.Is(err, context.DeadlineExceeded)
IsCanceled(err) == err \in {"canceled", "deadlineExceeded", "canceledStreamClosed"}

\* errors.Is(err, errStreamClosed)
IsStreamClosed(err) == err = "canceledStreamClosed"

\* The stream in the slot was opened with FeedRIB(streamCtx) on holder.conn: it
\* is dead once that context is cancelled, the connection closed or
\* CloseAndRecv called on it.
StreamDead(h) ==
    \/ ctxDone[h]
    \/ conn[h] = "closed"
    \/ streamCloses[h][currentStream[h]] > 0

\* Faulty variant of SendOutcomes: the stream is opened on a context that the
\* holder's cancel does not reach, so only the connection or a close ends it.
SendOutcomesUnboundCtx(h) ==
    IF conn[h] = "closed" \/ streamCloses[h][currentStream[h]] > 0 THEN {FALSE} ELSE BOOLEAN

\* Results (TRUE: nil error) of (*holder.currentStream).Send.
SendOutcomes(h) == IF StreamDead(h) THEN {FALSE} ELSE BOOLEAN

\* Results of client.FlushRoutes(streamCtx, ...) and of client.FeedRIB(ctx).
CtxRpcOutcomes(h) == IF ctxDone[h] \/ conn[h] = "closed" THEN {FALSE} ELSE BOOLEAN

\* (*holder.currentStream).CloseAndRecv()
CloseAndRecv(h) == [streamCloses[h] EXCEPT ![currentStream[h]] = @ + 1]

\* --------------------------------------------------------- runBirdImportLoop
\* Faulty variant of Cleanup: the deferred function reaches the holder
\* through the registry entry of its key instead of the captured holder.
CleanupViaRegistry(h) ==
    LET t == imports[cfg[h].key] IN
    /\ ctxDone' = [ctxDone EXCEPT ![t] = TRUE]
    /\ cancelCalls' = [cancelCalls EXCEPT ![t] = @ + 1]
    /\ conn' = [conn EXCEPT ![t] = "closed"]
    /\ connCloses' = [connCloses EXCEPT ![t] = @ + 1]
    /\ sup' = [sup EXCEPT ![h] = "term"]

\* Faulty variant of Cleanup: the deferred function cancels the context and
\* leaves the connection open.
CleanupNoClose(h) ==
    /\ ctxDone' = [ctxDone EXCEPT ![h] = TRUE]
    /\ cancelCalls' = [cancelCalls EXCEPT ![h] = @ + 1]
    /\ UNCHANGED <<conn, connCloses>>
    /\ sup' = [sup EXCEPT ![h] = "term"]

\* The deferred cleanup: holder.cancel(); holder.conn.Close(); the task ends.
Cleanup(h) ==
    /\ ctxDone' = [ctxDone EXCEPT ![h] = TRUE]
    /\ cancelCalls' = [cancelCalls EXCEPT ![h] = @ + 1]
    /\ conn' = [conn EXCEPT ![h] = "closed"]
    /\ connCloses' = [connCloses EXCEPT ![h] = @ + 1]
    /\ sup' = [sup EXCEPT ![h] = "term"]

\* holder.export.Run(ctx) starts.
StartRun(h) ==
    /\ sup' = [sup EXCEPT ![h] = "run"]
    /\ rd' = [rd EXCEPT ![h] = "idle"]
    /\ bidx' = [bidx EXCEPT ![h] = 0]
    /\ readerCalls' = [readerCalls EXCEPT ![h] = <<>>]
    /\ upstream' = [upstream EXCEPT ![h] = <<>>]

\* Faulty variant of RunReturns: the supervisor goes on without waiting for
\* the reader, which is left where it was.
RunReturnsReaderDetached(h, err, closes) ==
    /\ UNCHANGED <<rd, bidx>>
    /\ readerCalls' = [readerCalls EXCEPT ![h] = <<>>]
    /\ upstream' = [upstream EXCEPT ![h] = <<>>]
    /\ streamCloses' = [streamCloses EXCEPT ![h] = closes]
    /\ runErr' = [runErr EXCEPT ![h] = err]
    /\ sup' = [sup EXCEPT ![h] = "returned"]
    /\ UNCHANGED <<resourceVars, streamActive>>

\* err := holder.export.Run(ctx) returns; closes is the holder's stream
\* record as the callbacks left it.
RunReturns(h, err, closes) ==
    /\ rd' = [rd EXCEPT ![h] = "off"]
    /\ bidx' = [bidx EXCEPT ![h] = 0]
    /\ readerCalls' = [readerCalls EXCEPT ![h] = <<>>]
    /\ upstream' = [upstream EXCEPT ![h] = <<>>]
    /\ streamCloses' = [streamCloses EXCEPT ![h] = closes]
    /\ runErr' = [runErr EXCEPT ![h] = err]
    /\ sup' = [sup EXCEPT ![h] = "returned"]
    /\ UNCHANGED <<resourceVars, streamActive>>

\* Faulty variant of SupClassify: a cancelled reader is retried like any
\* other failure.
SupClassifyRetriesCancelled(h) ==
    /\ sup[h] = "returned"
    /\ runErr' = [runErr EXCEPT ![h] = "none"]
    /\ IF runErr[h] = "nil"
       THEN Cleanup(h) /\ UNCHANGED <<streamActive, streamCloses>>
       ELSE /\ streamActive' = [streamActive EXCEPT ![h] = FALSE]
            /\ streamCloses' = [streamCloses EXCEPT ![h] =
                  IF IsStreamClosed(runErr[h]) THEN @ ELSE CloseAndRecv(h)]
            /\ sup' = [sup EXCEPT ![h] = "backoff"]
            /\ UNCHANGED resourceVars
    /\ UNCHANGED <<setupVars, registryVars, quitCh, currentStream, readerVars>>

\* Faulty variant of SupClassify: streamActive is left set after a failure,
\* so the next iteration runs the reader on the stream just closed.
SupClassifyKeepsStreamActive(h) ==
    /\ sup[h] = "returned"
    /\ runErr' = [runErr EXCEPT ![h] = "none"]
    /\ IF runErr[h] = "nil" \/ IsCanceled(runErr[h])
       THEN Cleanup(h) /\ UNCHANGED <<streamActive, streamCloses>>
       ELSE /\ streamCloses' = [streamCloses EXCEPT ![h] =
                  IF IsStreamClosed(runErr[h]) THEN @ ELSE CloseAndRecv(h)]
            /\ sup' = [sup EXCEPT ![h] = "backoff"]
            /\ UNCHANGED <<resourceVars, streamActive>>
    /\ UNCHANGED <<setupVars, registryVars, quitCh, currentStream, readerVars>>

\* The classification of export.Run's result, lines 277-312: nil ends the
\* loop; any error clears streamActive; a cancellation error ends the loop;
\* any other error closes the stream unless onUpdate did, and goes to the
\* backoff select.  err is not read after this.
SupClassify(h) ==
    /\ sup[h] = "returned"
    /\ runErr' = [runErr EXCEPT ![h] = "none"]
    /\ IF runErr[h] = "nil"
       THEN Cleanup(h) /\ UNCHANGED <<streamActive, streamCloses>>
       ELSE /\ streamActive' = [streamActive EXCEPT ![h] = FALSE]
            /\ IF IsCanceled(runErr[h])
               THEN Cleanup(h) /\ UNCHANGED streamCloses
               ELSE /\ streamCloses' = [streamCloses EXCEPT ![h] =
                          IF IsStreamClosed(runErr[h]) THEN @ ELSE CloseAndRecv(h)]
                    /\ sup' = [sup EXCEPT ![h] = "backoff"]
                    /\ UNCHANGED resourceVars
    /\ UNCHANGED <<setupVars, registryVars, quitCh, currentStream, readerVars>>

\* Faulty variant of SupPreflight: the head of the loop does not read quitCh.
SupPreflightNoQuitCase(h) ==
    /\ sup[h] = "preflight"
    /\ IF ctxDone[h] \/ conn[h] = "closed"
       THEN Cleanup(h) /\ UNCHANGED <<streamActive, readerVars>>
       ELSE IF ~streamActive[h]
       THEN /\ sup' = [sup EXCEPT ![h] = "reconnect"]
            /\ UNCHANGED <<resourceVars, streamActive, readerVars>>
       ELSE StartRun(h) /\ UNCHANGED <<resourceVars, streamActive>>
    /\ UNCHANGED <<setupVars, registryVars, quitCh, runErr, streamVars>>

\* Faulty variant of SupPreflight: the head of the loop goes straight to the
\* streamActive test, with neither the ctx/quit select nor the SHUTDOWN check.
SupPreflightNoTerminalChecks(h) ==
    /\ sup[h] = "preflight"
    /\ IF ~streamActive[h]
       THEN /\ sup' = [sup EXCEPT ![h] = "reconnect"]
            /\ UNCHANGED <<resourceVars, streamActive, readerVars>>
       ELSE StartRun(h) /\ UNCHANGED <<resourceVars, streamActive>>
    /\ UNCHANGED <<setupVars, registryVars, quitCh, runErr, streamVars>>

\* Head of the loop: the ctx/quit select, the SHUTDOWN check, the streamActive test.
SupPreflight(h) ==
    /\ sup[h] = "preflight"
    /\ IF ctxDone[h] \/ quitCh \/ conn[h] = "closed"
       THEN Cleanup(h) /\ UNCHANGED <<streamActive, readerVars>>
       ELSE IF ~streamActive[h]
       THEN /\ sup' = [sup EXCEPT ![h] = "reconnect"]
            /\ UNCHANGED <<resourceVars, streamActive, readerVars>>
       ELSE StartRun(h) /\ UNCHANGED <<resourceVars, streamActive>>
    /\ UNCHANGED <<setupVars, registryVars, quitCh, runErr, streamVars>>

\* reconnectStream: the quit / ctx.Done cases; the loop then terminates.
ReconnectAbort(h) ==
    /\ sup[h] = "reconnect"
    /\ quitCh \/ ctxDone[h]
    /\ Cleanup(h)
    /\ UNCHANGED <<setupVars, registryVars, quitCh, runErr, streamActive, streamVars, readerVars>>

\* Faulty variant of ReconnectTick: a failed FeedRIB attempt ends
\* reconnectStream (return false) instead of waiting for the next tick.
ReconnectTickGivesUp(h) ==
    /\ sup[h] = "reconnect"
    /\ \E ok \in CtxRpcOutcomes(h) :
         IF ok
         THEN /\ Len(streamCloses[h]) < MaxStreams
              /\ streamCloses' = [streamCloses EXCEPT ![h] = Append(@, 0)]
              /\ currentStream' = [currentStream EXCEPT ![h] = Len(streamCloses[h]) + 1]
              /\ streamActive' = [streamActive EXCEPT ![h] = TRUE]
              /\ StartRun(h)
              /\ UNCHANGED resourceVars
         ELSE Cleanup(h) /\ UNCHANGED <<streamActive, streamVars, readerVars>>
    /\ UNCHANGED <<setupVars, registryVars, quitCh, runErr>>

\* reconnectStream: the ticker case, one FeedRIB attempt.
ReconnectTick(h) ==
    /\ sup[h] = "reconnect"
    /\ \E ok \in CtxRpcOutcomes(h) :
         IF ok
         THEN /\ Len(streamCloses[h]) < MaxStreams
              /\ streamCloses' = [streamCloses EXCEPT ![h] = Append(@, 0)]
              /\ currentStream' = [currentStream EXCEPT ![h] = Len(streamCloses[h]) + 1]
              /\ streamActive' = [streamActive EXCEPT ![h] = TRUE]
              /\ StartRun(h)
         ELSE UNCHANGED <<sup, streamActive, streamVars, readerVars>>
    /\ UNCHANGED <<setupVars, registryVars, quitCh, runErr, resourceVars>>

\* The outer backoff select: ctx.Done / quit.
BackoffAbort(h) ==
    /\ sup[h] = "backoff"
    /\ quitCh \/ ctxDone[h]
    /\ Cleanup(h)
    /\ UNCHANGED <<setupVars, registryVars, quitCh, runErr, streamActive, streamVars, readerVars>>

\* The outer backoff select: time.After fires.
BackoffTimer(h) ==
    /\ sup[h] = "backoff"
    /\ sup' = [sup EXCEPT ![h] = "preflight"]
    /\ UNCHANGED <<setupVars, registryVars, quitCh, runErr, resourceVars, streamActive,
                   streamVars, readerVars>>

\* ------------------------------------------------ bird.Export and callbacks
\* Number of routes the reader has handed to onUpdate in this Run.
RECURSIVE Emitted(_)
Emitted(calls) ==
    IF calls = <<>> THEN 0 ELSE Len(Last(calls).routes) + Emitted(SubSeq(calls, 1, Len(calls) - 1))

\* The reader calls onUpdate(ctx, routes); routes are named by the order in
\* which the reader emits them.
ReaderOnUpdate(h) ==
    /\ sup[h] = "run" /\ rd[h] = "idle"
    /\ Len(readerCalls[h]) < MaxReaderCalls
    /\ \E n \in BatchLens :
         LET first == Emitted(readerCalls[h]) IN
         readerCalls' = [readerCalls EXCEPT ![h] =
                            Append(@, UpdateCall([i \in 1..n |-> first + i]))]
    /\ rd' = [rd EXCEPT ![h] = "check"]
    /\ bidx' = [bidx EXCEPT ![h] = 1]
    /\ UNCHANGED <<setupVars, registryVars, quitCh, runErr, resourceVars, sup, streamActive,
                   streamVars, upstream>>

\* Faulty variant of OnUpdateCheck: the cancellation path closes the stream
\* and returns an error without the context error and the sentinel.
OnUpdateCheckNoSentinel(h) ==
    /\ sup[h] = "run" /\ rd[h] = "check"
    /\ IF ctxDone[h]
       THEN RunReturns(h, "other", CloseAndRecv(h))
       ELSE /\ rd' = [rd EXCEPT ![h] = "send"]
            /\ UNCHANGED <<resourceVars, runErr, sup, streamActive, streamVars, bidx,
                           readerCalls, upstream>>
    /\ UNCHANGED <<setupVars, registryVars, quitCh, currentStream>>

\* onUpdate: the select on ctx.Done() before each Send.
OnUpdateCheck(h) ==
    /\ sup[h] = "run" /\ rd[h] = "check"
    /\ IF ctxDone[h]
       THEN RunReturns(h, "canceledStreamClosed", CloseAndRecv(h))
       ELSE /\ rd' = [rd EXCEPT ![h] = "send"]
            /\ UNCHANGED <<resourceVars, runErr, sup, streamActive, streamVars, bidx,
                           readerCalls, upstream>>
    /\ UNCHANGED <<setupVars, registryVars, quitCh, currentStream>>

\* Faulty variant of OnUpdateSend: the batch is walked from its end.
OnUpdateSendReversed(h) ==
    /\ sup[h] = "run" /\ rd[h] = "send"
    /\ LET routes == Last(readerCalls[h]).routes IN
       \E ok \in SendOutcomes(h) :
         IF ok
         THEN /\ upstream' = [upstream EXCEPT ![h] =
                    Append(@, SendEvent(routes[Len(routes) + 1 - bidx[h]]))]
              /\ IF bidx[h] = Len(routes)
                 THEN /\ rd' = [rd EXCEPT ![h] = "idle"]
                      /\ bidx' = [bidx EXCEPT ![h] = 0]
                 ELSE /\ rd' = [rd EXCEPT ![h] = "check"]
                      /\ bidx' = [bidx EXCEPT ![h] = @ + 1]
              /\ UNCHANGED <<resourceVars, runErr, sup, streamActive, streamVars, readerCalls>>
         ELSE RunReturns(h, "other", streamCloses[h])
    /\ UNCHANGED <<setupVars, registryVars, quitCh, currentStream>>

\* onUpdate: (*holder.currentStream).Send(routes[idx]) and the loop step.
OnUpdateSend(h) ==
    /\ sup[h] = "run" /\ rd[h] = "send"
    /\ LET routes == Last(readerCalls[h]).routes IN
       \E ok \in SendOutcomes(h) :
         IF ok
         THEN /\ upstream' = [upstream EXCEPT ![h] = Append(@, SendEvent(routes[bidx[h]]))]
              /\ IF bidx[h] = Len(routes)
                 THEN /\ rd' = [rd EXCEPT ![h] = "idle"]
                      /\ bidx' = [bidx EXCEPT ![h] = 0]
                 ELSE /\ rd' = [rd EXCEPT ![h] = "check"]
                      /\ bidx' = [bidx EXCEPT ![h] = @ + 1]
              /\ UNCHANGED <<resourceVars, runErr, sup, streamActive, streamVars, readerCalls>>
         ELSE RunReturns(h, "other", streamCloses[h])
    /\ UNCHANGED <<setupVars, registryVars, quitCh, currentStream>>

\* The reader calls onFlush(): client.FlushRoutes(streamCtx, flushRequest).
ReaderOnFlush(h) ==
    /\ sup[h] = "run" /\ rd[h] = "idle"
    /\ Len(readerCalls[h]) < MaxReaderCalls
    /\ \E ok \in CtxRpcOutcomes(h) :
         IF ok
         THEN /\ readerCalls' = [readerCalls EXCEPT ![h] = Append(@, FlushCall)]
              /\ upstream' = [upstream EXCEPT ![h] = Append(@, FlushEvent)]
              /\ UNCHANGED <<resourceVars, runErr, sup, streamActive, streamVars, rd, bidx>>
         ELSE RunReturns(h, "other", streamCloses[h])
    /\ UNCHANGED <<setupVars, registryVars, quitCh, currentStream>>

\* export.Run returns on its own: cleanly (nil) or with a reader error.
ReaderStops(h) ==
    /\ sup[h] = "run" /\ rd[h] = "idle"
    /\ \E err \in {"nil", "deadlineExceeded", "other"} : RunReturns(h, err, streamCloses[h])
    /\ UNCHANGED <<setupVars, registryVars, quitCh, currentStream>>

\* export.Run honours the cancellation of its context and returns ctx.Err().
ReaderCancelled(h) ==
    /\ sup[h] = "run" /\ rd[h] = "idle"
    /\ ctxDone[h]
    /\ RunReturns(h, "canceled", streamCloses[h])
    /\ UNCHANGED <<setupVars, registryVars, quitCh, currentStream>>

\* ------------------------------------------------------------------- quit
\* The owner of the service closes quitCh.
Quit ==
    /\ ~quitCh
    /\ quitCh' = TRUE
    /\ UNCHANGED <<setupVars, registryVars, resourceVars, runErr, sup, streamActive,
                   streamVars, readerVars>>

\* ---------------------------------------------------------- specification
Setup(c) ==
    \/ SetupConfig(c)
    \/ InstallLock(c)
    \/ InstallCancelOld(c)
    \/ InstallCloseOld(c)
    \/ InstallHolder(c)

Supervisor(h) ==
    \/ SupPreflight(h)
    \/ SupClassify(h)
    \/ ReconnectAbort(h)
    \/ ReconnectTick(h)
    \/ BackoffAbort(h)
    \/ BackoffTimer(h)

Reader(h) ==
    \/ ReaderOnUpdate(h)
    \/ OnUpdateCheck(h)
    \/ OnUpdateSend(h)
    \/ ReaderOnFlush(h)
    \/ ReaderStops(h)
    \/ ReaderCancelled(h)

Next ==
    \/ \E c \in Calls : Setup(c)
    \/ \E h \in Calls : Supervisor(h)
    \/ \E h \in Calls : Reader(h)
    \/ Quit

Spec == Init /\ [][Next]_vars

\* The scheduling the runtime and the reader provide: a supervisor goroutine
\* keeps running, a select with a ready case takes it, an onUpdate in progress
\* goes on (a Send on a dead stream fails rather than blocks), and export.Run
\* honours the cancellation of its context.  Nothing makes a healthy reader
\* stop, a failing FeedRIB succeed, or a request arrive.
Fairness ==
    \A h \in Calls :
        /\ WF_vars(SupPreflight(h))
        /\ WF_vars(SupClassify(h))
        /\ WF_vars(ReconnectAbort(h))
        /\ WF_vars(BackoffAbort(h))
        /\ WF_vars(BackoffTimer(h))
        /\ WF_vars(OnUpdateCheck(h))
        /\ WF_vars(OnUpdateSend(h))
        /\ WF_vars(ReaderCancelled(h))

FairSpec == Init /\ [][Next]_vars /\ Fairness

\* A FeedRIB attempt of reconnectStream opens a stream.
ReconnectOpens(h) == ReconnectTick(h) /\ sup'[h] = "run"

\* The scheduling reconnectStream needs: its select takes a ready quit or
\* ctx.Done case, and, as a further assumption, the gateway does not refuse
\* FeedRIB for ever: an attempt that can succeed eventually does.
ReconnectFairSpec ==
    /\ Init /\ [][Next]_vars
    /\ \A h \in Calls : WF_vars(ReconnectAbort(h)) /\ WF_vars(ReconnectOpens(h))

\* ============================================================== properties
Range(f) == {f[x] : x \in DOMAIN f}

\* A supervisor task exists for holder h and has not ended.
Running(h) == sup[h] \notin {"none", "term"}

RECURSIVE LastInstalledFor(_, _)
\* The last call of log that installed a holder under key k (NoHolder: none).
LastInstalledFor(k, log) ==
    IF log = <<>> THEN NoHolder
    ELSE IF cfg[Last(log)].key = k THEN Last(log)
    ELSE LastInstalledFor(k, SubSeq(log, 1, Len(log) - 1))

\* C1: for every key that has been installed at least once, the registry
\* holds exactly one holder under it at every later instant, and that holder
\* is the one written by the most recent installation for the key (the last
\* caller to pass through the registry critical section).
RegistryHoldsLatest ==
    \A k \in Keys : imports[k] = LastInstalledFor(k, installLog)

\* C1 witness: a key was installed twice, its first supervisor has ended,
\* and the registry holds the second holder.
RegistryHoldsLatestWitness ==
    /\ Len(installLog) = 2
    /\ cfg[installLog[1]].key = cfg[installLog[2]].key
    /\ imports[cfg[installLog[2]].key] = installLog[2]
    /\ sup[installLog[1]] = "term"

\* Holders of key k whose supervisor is running on an uncancelled context.
LiveImports(k) == {h \in Calls : cfg[h].key = k /\ Running(h) /\ ~ctxDone[h]}

\* C2: for each key there is at most one holder whose supervisor task is
\* running and whose context is not cancelled; a supervisor for a key is
\* started only after cancel has been invoked on every predecessor holder of
\* that key.
AtMostOneLiveImport ==
    /\ \A k \in Keys : Cardinality(LiveImports(k)) <= 1
    /\ \A h \in Calls :
         (h \in Range(installLog) /\ h # LastInstalledFor(cfg[h].key, installLog))
            => cancelCalls[h] > 0

\* C2 witness: a cancelled predecessor is still inside export.Run while its
\* successor under the same key is running too.
AtMostOneLiveImportWitness ==
    \E h1, h2 \in Calls :
        /\ h1 # h2 /\ cfg[h1].key = cfg[h2].key
        /\ sup[h1] = "run" /\ ctxDone[h1]
        /\ sup[h2] = "run" /\ ~ctxDone[h2]

\* Holder h was installed and a later installation took its key.
Replaced(h) == h \in Range(installLog) /\ imports[cfg[h].key] # h

\* Holder h's supervisor has ended with its context cancelled and its
\* connection closed.
TornDown(h) == sup[h] = "term" /\ ctxDone[h] /\ conn[h] = "closed"

\* C4: a holder that has been replaced under its key has had its context
\* cancelled, and its supervisor eventually ends, wherever it was (preflight,
\* reconnectStream, export.Run, backoff sleep), with its connection closed;
\* an ended supervisor never runs again.
ReplacementConverges ==
    /\ [](\A h \in Calls : Replaced(h) => ctxDone[h])
    /\ \A h \in Calls : Replaced(h) ~> TornDown(h)
    /\ [][\A h \in Calls : sup[h] = "term" => sup'[h] = "term"]_vars

\* C4 witness: a replaced holder is torn down while its successor runs.
ReplacementConvergesWitness ==
    \E h \in Calls :
        /\ Replaced(h) /\ TornDown(h)
        /\ sup[imports[cfg[h].key]] = "run"

\* Call c returns success in this step.
ReturnsOk(c) == pc[c] # "ok" /\ pc'[c] = "ok"

\* C3: a SetupConfig call that returns success for a key that has an import
\* in the registry has cancelled the prior holder, closed its connection and
\* left a new holder in the registry, whatever its accepted configuration.
SuccessReplacesPrior ==
    [][\A c \in Calls :
         (ReturnsOk(c) /\ imports[cfg'[c].key] # NoHolder) =>
            LET old == imports[cfg'[c].key] IN
            /\ imports'[cfg'[c].key] # old
            /\ ctxDone'[old]
            /\ conn'[old] = "closed"]_vars

\* Coordinator state a failing call must leave alone: the registry and every
\* other call's context, connection and supervisor.
Untouched(c) ==
    /\ UNCHANGED <<registryVars, sup, streamActive>>
    /\ \A h \in Calls \ {c} :
         /\ ctxDone'[h] = ctxDone[h] /\ cancelCalls'[h] = cancelCalls[h]
         /\ conn'[h] = conn[h] /\ connCloses'[h] = connCloses[h]

\* C5: a SetupConfig call that fails (INVALID_ARGUMENT or INTERNAL) changes
\* no coordinator state: the registry is unchanged, no holder is installed,
\* no supervisor is spawned, and an import under the same key is neither
\* cancelled nor has its connection closed.
FailureChangesNothing ==
    [][\A c \in Calls :
         /\ (pc[c] # pc'[c] /\ pc'[c] \in {"invalid", "internal"}) => Untouched(c)
         /\ pc'[c] \in {"invalid", "internal"} =>
               /\ sup'[c] = "none"
               /\ c \notin Range(installLog')
               /\ c \notin Range(imports')]_vars

\* C5 witness: a call has failed with INTERNAL while an import under the same
\* key is registered, running and uncancelled.
FailureChangesNothingWitness ==
    \E c, h \in Calls :
        /\ pc[c] = "internal" /\ rpcLog[c] # <<>>
        /\ imports[cfg[c].key] = h
        /\ sup[h] = "run" /\ ~ctxDone[h] /\ conn[h] = "open"

\* The initial FeedRIB of call c failed.
InitialFeedFailed(c) ==
    /\ pc[c] = "internal"
    /\ rpcLog[c] # <<>>
    /\ Last(rpcLog[c]).name = "FeedRIB"

\* C6: when the initial FeedRIB fails the call returns INTERNAL, installs no
\* holder, and the connection it opened is closed before it returns.
InitialFeedFailureClosesConn ==
    \A c \in Calls :
        InitialFeedFailed(c) =>
            /\ c \notin Range(installLog)
            /\ conn[c] = "closed"

\* C7: setup issues one InsertRoute per static route in configuration order,
\* then exactly one FlushRoutes, and no RPC after the first failing one; a
\* successful setup without BIRD sockets has closed its connection, left the
\* registry alone and spawned no supervisor.
StaticPrelude ==
    \A c \in Calls :
        LET log == rpcLog[c]
            routes == cfg[c].routes
            n == Len(routes)
        IN  /\ Len(log) <= n + 2
            /\ \A i \in DOMAIN log :
                 /\ i <= n => log[i].name = "InsertRoute" /\ log[i].arg = routes[i]
                 /\ i = n + 1 => log[i].name = "FlushRoutes"
                 /\ i = n + 2 => log[i].name = "FeedRIB" /\ cfg[c].sockets
                 /\ i < Len(log) => log[i].ok
            /\ (log # <<>> /\ ~Last(log).ok) => pc[c] = "internal"
            /\ pc[c] \notin {"idle", "invalid", "internal"} =>
                 /\ Len(log) >= n + 1
                 /\ \A i \in DOMAIN log : log[i].ok
            /\ (pc[c] = "ok" /\ ~cfg[c].sockets) =>
                 /\ Len(log) = n + 1
                 /\ conn[c] = "closed"
                 /\ sup[c] = "none"
                 /\ c \notin Range(installLog)
                 /\ c \notin Range(imports)

\* C7 witness: a static-only setup with two routes has returned success.
StaticPreludeWitness ==
    \E c \in Calls :
        /\ pc[c] = "ok" /\ ~cfg[c].sockets
        /\ Len(cfg[c].routes) >= 2
        /\ Len(rpcLog[c]) = Len(cfg[c].routes) + 1

\* The upstream events of one reader callback carried out in full.
EventsOf(call) ==
    IF call.op = "flush" THEN <<FlushEvent>>
    ELSE [i \in 1..Len(call.routes) |-> SendEvent(call.routes[i])]

RECURSIVE Flatten(_)
\* The upstream events of a sequence of callbacks, each carried out in full.
Flatten(calls) ==
    IF calls = <<>> THEN <<>>
    ELSE Flatten(SubSeq(calls, 1, Len(calls) - 1)) \o EventsOf(Last(calls))

\* What the reader has asked for so far in this Run: every finished callback
\* in full, and of an onUpdate in progress the routes before its loop index.
Requested(h) ==
    IF rd[h] \in {"check", "send"}
    THEN Flatten(SubSeq(readerCalls[h], 1, Len(readerCalls[h]) - 1))
            \o SubSeq(EventsOf(Last(readerCalls[h])), 1, bidx[h] - 1)
    ELSE Flatten(readerCalls[h])

SendSucceeds(h) ==
    /\ Len(upstream'[h]) = Len(upstream[h]) + 1
    /\ Last(upstream'[h]).op = "Send"

OneSupervisorPerRegisteredKey ==
    /\ \A k \in Keys :
         imports[k] # NoHolder =>
            Cardinality({h \in Calls : cfg[h].key = k /\ Running(h)}) = 1
    /\ \A h \in Calls : Running(h) => imports[cfg[h].key] = h

\* C10 amended: the holder registered under a key has had its supervisor
\* started (it is running or has ended); a supervisor is only ever started
\* for a holder that was written into the registry; and a supervisor still
\* running for a holder that is no longer the registry entry of its key has
\* had its context cancelled.
SupervisorsFollowRegistry ==
    /\ \A k \in Keys : imports[k] # NoHolder => sup[imports[k]] # "none"
    /\ \A h \in Calls : sup[h] # "none" => h \in Range(installLog)
    /\ \A h \in Calls : (Running(h) /\ imports[cfg[h].key] # h) => ctxDone[h]

\* C10 witness: a registered holder whose supervisor has ended (a ghost
\* entry) next to a key whose holder is still supervised.
SupervisorsFollowRegistryWitness ==
    \E k1, k2 \in Keys :
        /\ imports[k1] # NoHolder /\ sup[imports[k1]] = "term"
        /\ imports[k2] # NoHolder /\ Running(imports[k2])

\* Replacement has invoked cancel on holder h: a call holding the registry
\* lock is past oldHolder.cancel() on it, or h has been replaced.
CancelledByReplacement(h) ==
    \/ \E c \in Calls : pc[c] \in {"closeOld", "write"} /\ imports[cfg[c].key] = h
    \/ Replaced(h)

\* Invocations of h's cancel by each path: replacement, the supervisor's
\* deferred cleanup, and the failure path of the initial FeedRIB.
CancelsOwed(h) ==
    (IF CancelledByReplacement(h) THEN 1 ELSE 0)
    + (IF sup[h] = "term" THEN 1 ELSE 0)
    + (IF InitialFeedFailed(h) THEN 1 ELSE 0)

\* C11: cancel is invoked at most once per holder over the holder's whole
\* lifetime, across all teardown paths (replacement in the registry and the
\* supervisor's terminal cleanup).
CancelAtMostOnce ==
    \A h \in Calls : cancelCalls[h] <= 1

\* C11 amended: cancel is invoked at most once per teardown path of a holder,
\* once by the replacement that supersedes it and once by its own
\* supervisor's cleanup, so at most twice over the holder's lifetime.
CancelOncePerTeardownPath ==
    \A h \in Calls :
        /\ cancelCalls[h] = CancelsOwed(h)
        /\ cancelCalls[h] <= 2

\* C11 witness: a replaced holder whose supervisor has ended: cancel was
\* invoked by the replacement and again by the cleanup.
CancelOncePerTeardownPathWitness ==
    \E h \in Calls : Replaced(h) /\ sup[h] = "term" /\ cancelCalls[h] = 2

\* Replacement has closed holder h's connection: the call holding the
\* registry lock is past oldHolder.conn.Close() on it, or h has been replaced.
ClosedByReplacement(h) ==
    \/ \E c \in Calls : pc[c] = "write" /\ imports[cfg[c].key] = h
    \/ Replaced(h)

\* Invocations of Close on the connection of call h by each path:
\* replacement, the supervisor's deferred cleanup, and the return of a setup
\* without BIRD sockets.
ClosesOwed(h) ==
    (IF ClosedByReplacement(h) THEN 1 ELSE 0)
    + (IF sup[h] = "term" THEN 1 ELSE 0)
    + (IF pc[h] = "ok" /\ ~cfg[h].sockets THEN 1 ELSE 0)

\* C12: a holder's connection is closed exactly once and only by its own
\* supervisor's terminal cleanup; it is never closed while that supervisor's
\* reader (export.Run) is still running or its current stream still in use.
ConnClosedOnlyByOwnCleanup ==
    \A h \in Calls :
        sup[h] # "none" =>
            /\ connCloses[h] <= 1
            /\ conn[h] = "closed" => sup[h] = "term"
            /\ sup[h] = "term" => connCloses[h] = 1

\* C12 amended: a holder's connection is closed once by its own supervisor's
\* terminal cleanup and, when the holder is replaced, once more by the
\* replacement; only the replacement closes it while the supervisor is still
\* running, and then after cancel has been invoked on the holder.
ConnClosedOncePerTeardownPath ==
    \A h \in Calls :
        /\ connCloses[h] = ClosesOwed(h)
        /\ connCloses[h] <= 2
        /\ (conn[h] = "closed") = (connCloses[h] > 0)
        /\ (Running(h) /\ conn[h] = "closed") =>
              ClosedByReplacement(h) /\ cancelCalls[h] > 0

\* C12 witness: replacement has closed the connection of a holder whose
\* onUpdate is about to Send on the current stream.
ConnClosedOncePerTeardownPathWitness ==
    \E h \in Calls :
        /\ sup[h] = "run" /\ rd[h] = "send"
        /\ conn[h] = "closed" /\ connCloses[h] = 1

\* C13: once the quit channel is closed, every running supervisor eventually
\* terminates with its per-import context cancelled, in whichever state it
\* is at that moment (preflight, reconnecting, blocked in export.Run with a
\* healthy reader, outer backoff sleep).
QuitStopsEveryImport ==
    \A h \in Calls : (quitCh /\ Running(h)) ~> (sup[h] = "term" /\ ctxDone[h])

\* Holder h's supervisor is in the outer backoff sleep, or back at the head
\* of the loop, with quit closed or its context cancelled.
SignalledAsleep(h) ==
    /\ quitCh \/ ctxDone[h]
    /\ sup[h] \in {"backoff", "preflight"}

\* No RPC is issued for holder h in this step: no FeedRIB opens a stream, no
\* Send or FlushRoutes reaches upstream, and export.Run is not started.
NoRpcStep(h) ==
    /\ sup'[h] \notin {"reconnect", "run"}
    /\ rd'[h] = "off"
    /\ Len(streamCloses'[h]) = Len(streamCloses[h])
    /\ upstream'[h] = upstream[h]

\* C14: if quit is closed or the per-import context cancelled while a
\* supervisor is in the outer backoff sleep, the supervisor terminates
\* without issuing any further RPC (FeedRIB, Send, FlushRoutes, export.Run),
\* also when the backoff timer fires at the same moment.
BackoffSignalNoFurtherRpc ==
    /\ [][\A h \in Calls :
            SignalledAsleep(h) =>
               /\ NoRpcStep(h)
               /\ sup[h] = "preflight" => sup'[h] \in {"preflight", "term"}]_vars
    /\ \A h \in Calls :
          (sup[h] = "backoff" /\ (quitCh \/ ctxDone[h])) ~> (sup[h] = "term")

\* C14 witness: quit was closed during the backoff sleep of a supervisor
\* whose context is not cancelled, and the timer won the select: the
\* supervisor is back at the head of the loop with its stream inactive.
BackoffSignalNoFurtherRpcWitness ==
    \E h \in Calls :
        /\ sup[h] = "preflight" /\ ~streamActive[h]
        /\ quitCh /\ ~ctxDone[h]

\* C15: a supervisor that finds its holder's connection shut down at
\* preflight terminates without invoking the reconnector and without running
\* the reader again; once a holder's connection has been closed (by
\* replacement) no new stream is opened for it and no export.Run is started.
ShutdownConnIsTerminal ==
    [][\A h \in Calls :
          conn[h] = "closed" =>
             /\ sup[h] = "preflight" => sup'[h] \in {"preflight", "term"}
             /\ sup[h] # "run" => sup'[h] # "run"
             /\ Len(streamCloses'[h]) = Len(streamCloses[h])
             /\ currentStream'[h] = currentStream[h]]_vars

\* C15 witness: a supervisor woken from its backoff sleep is at preflight
\* with its stream inactive and its connection closed by a replacement.
ShutdownConnIsTerminalWitness ==
    \E h \in Calls :
        /\ sup[h] = "preflight" /\ ~streamActive[h]
        /\ conn[h] = "closed" /\ ClosedByReplacement(h)

\* C16: no reader callback is active for a holder while its supervisor is
\* inside reconnectStream (or anywhere outside export.Run), and the stream
\* slot is written only when the holder is built and by reconnectStream
\* between the return of one export.Run and the start of the next.
NoCallbackWhileReconnecting ==
    /\ [](\A h \in Calls : rd[h] # "off" => sup[h] = "run")
    /\ [][\A h \in Calls :
            currentStream'[h] # currentStream[h] =>
               /\ rd[h] = "off"
               /\ sup[h] \in {"none", "reconnect"}
               /\ sup[h] = "reconnect" => sup'[h] = "run" /\ rd'[h] = "idle"]_vars

\* C16 witness: reconnectStream has written a second stream into the slot
\* and an onUpdate of the following export.Run is about to Send on it.
NoCallbackWhileReconnectingWitness ==
    \E h \in Calls :
        /\ currentStream[h] = 2
        /\ sup[h] = "run" /\ rd[h] = "send"

\* C17: CloseAndRecv is invoked at most once on every stream that was ever
\* stored in a holder's slot, over all interleavings of cancellation with
\* sends; a stream onUpdate closed on its cancellation path is not closed
\* again by the supervisor.
NoStreamDoubleClosed ==
    \A h \in Calls : \A i \in DOMAIN streamCloses[h] : streamCloses[h][i] <= 1

\* C17 witness: a holder was cancelled after a reconnection and its
\* supervisor has ended; CloseAndRecv has been invoked once on the first
\* stream (by the supervisor) and once on the second.
NoStreamDoubleClosedWitness ==
    \E h \in Calls :
        /\ sup[h] = "term" /\ ctxDone[h] /\ ~quitCh
        /\ streamCloses[h] = <<1, 1>>

\* Holder h's supervisor classifies the result of export.Run in this step.
Classifies(h) == sup[h] = "returned" /\ sup'[h] # "returned"

\* reconnectStream returns true for holder h in this step: a new stream has
\* been opened and written into the slot.
ReconnectedStep(h) ==
    /\ sup[h] = "reconnect"
    /\ Len(streamCloses'[h]) = Len(streamCloses[h]) + 1
    /\ currentStream'[h] = Len(streamCloses'[h])

\* C18: export.Run returning nil ends the supervisor; an error that is
\* context.Canceled or context.DeadlineExceeded ends it with no CloseAndRecv,
\* no backoff sleep and no retry; any other error clears streamActive, closes
\* the current stream unless the error carries the sentinel, and goes to the
\* backoff sleep and from there to preflight, and the reader is run again
\* only after reconnectStream has returned true.
RunFailureClassification ==
    [][\A h \in Calls :
          /\ Classifies(h) =>
               /\ runErr[h] = "nil" => sup'[h] = "term"
               /\ IsCanceled(runErr[h]) =>
                     /\ sup'[h] = "term"
                     /\ streamCloses'[h] = streamCloses[h]
               /\ (runErr[h] # "nil" /\ ~IsCanceled(runErr[h])) =>
                     /\ ~streamActive'[h]
                     /\ streamCloses'[h] =
                           IF IsStreamClosed(runErr[h]) THEN streamCloses[h]
                           ELSE CloseAndRecv(h)
                     /\ sup'[h] = "backoff"
          /\ sup[h] = "backoff" => sup'[h] \in {"backoff", "preflight", "term"}
          /\ sup[h] = "term" => sup'[h] = "term"
          /\ (~streamActive[h] /\ streamActive'[h]) =>
                sup[h] = "none" \/ ReconnectedStep(h)
          /\ (sup[h] # "run" /\ sup'[h] = "run") =>
                \/ sup[h] = "preflight" /\ streamActive[h]
                \/ ReconnectedStep(h) /\ streamActive'[h]]_vars

\* C18 witness: after a reader failure the first stream was closed once by
\* the supervisor, reconnectStream opened a second one, and the reader is
\* running again.
RunFailureClassificationWitness ==
    \E h \in Calls :
        /\ sup[h] = "run" /\ rd[h] = "idle"
        /\ currentStream[h] = 2 /\ streamCloses[h] = <<1, 0>>
        /\ streamActive[h]

\* Holder h's supervisor task ends in this step.
SupervisorEnds(h) == sup[h] # "term" /\ sup'[h] = "term"

\* C19: on every exit path of the supervisor the holder's cancel has been
\* invoked and its connection closed by the time the task ends, and the
\* supervisor never removes or changes a registry entry: a terminated
\* import's holder stays in the registry until a new holder is written
\* under its key.
TerminalCleanup ==
    /\ [](\A h \in Calls :
            sup[h] = "term" =>
               /\ ctxDone[h] /\ cancelCalls[h] >= 1
               /\ conn[h] = "closed" /\ connCloses[h] >= 1)
    /\ [][\A h \in Calls :
            /\ SupervisorEnds(h) =>
                  /\ cancelCalls'[h] = cancelCalls[h] + 1
                  /\ connCloses'[h] = connCloses[h] + 1
                  /\ imports' = imports
            /\ (sup[h] # "none" /\ sup'[h] # sup[h]) => imports' = imports
            /\ \A k \in Keys :
                  (imports[k] = h /\ imports'[k] # h) =>
                     /\ imports'[k] # NoHolder
                     /\ pc[imports'[k]] = "write"
                     /\ cfg[imports'[k]].key = k]_vars

\* C19 witness: the reader of an import returned nil with neither quit nor
\* replacement; the supervisor has ended after cancel and Close, and its
\* holder is still the registry entry of its key.
TerminalCleanupWitness ==
    \E h \in Calls :
        /\ sup[h] = "term" /\ streamActive[h] /\ ~quitCh
        /\ cancelCalls[h] = 1 /\ connCloses[h] = 1
        /\ imports[cfg[h].key] = h

\* The stream slot of holder h and the record of the streams opened for it
\* are the same after this step.
SlotUnchanged(h) ==
    /\ currentStream'[h] = currentStream[h]
    /\ streamCloses'[h] = streamCloses[h]

\* C20: reconnectStream returns true only after a FeedRIB call succeeded and
\* its handle was written into the slot; it returns false only when the
\* per-import context is done or quit is closed, and then the slot holds the
\* handle it held on entry; failed attempts are retried and leave the slot
\* alone.  It terminates once a cancellation signal has fired, and also when
\* a FeedRIB attempt that can succeed eventually does.
ReconnectorContract ==
    /\ [][\A h \in Calls :
            sup[h] = "reconnect" =>
               /\ sup'[h] \in {"reconnect", "run", "term"}
               /\ sup'[h] = "run" =>
                     /\ ~ctxDone[h] /\ conn[h] = "open"
                     /\ ReconnectedStep(h)
                     /\ streamCloses'[h] = Append(streamCloses[h], 0)
                     /\ streamActive'[h]
               /\ sup'[h] = "term" =>
                     /\ quitCh \/ ctxDone[h]
                     /\ SlotUnchanged(h)
               /\ sup'[h] = "reconnect" => SlotUnchanged(h)]_vars
    /\ \A h \in Calls :
          (/\ sup[h] = "reconnect"
           /\ quitCh \/ ctxDone[h] \/ Len(streamCloses[h]) < MaxStreams)
             ~> (sup[h] # "reconnect")

\* C20 witness: reconnectStream has just returned true: the slot holds the
\* second stream, unused and unclosed, and export.Run has started on it.
ReconnectorContractWitness ==
    \E h \in Calls :
        /\ sup[h] = "run" /\ readerCalls[h] = <<>>
        /\ currentStream[h] = 2 /\ streamCloses[h] = <<1, 0>>
        /\ ~ctxDone[h]

\* onUpdate of holder h issues a Send on the stream in the slot in this step.
SendIssued(h) == rd[h] = "send" /\ rd'[h] # "send"

\* export.Run is started for holder h in this step.
RunStarts(h) == sup[h] # "run" /\ sup'[h] = "run"

\* C21: no Send is issued on a stream on which CloseAndRecv has been called:
\* the stream in the slot is unclosed whenever the reader is running; every
\* export.Run but the first starts in the step in which reconnectStream
\* stored a fresh stream; and after onUpdate's cancellation path closed the
\* stream the supervisor ends without running the reader again.
NoSendOnClosedStream ==
    /\ [](\A h \in Calls :
            sup[h] = "run" => streamCloses[h][currentStream[h]] = 0)
    /\ [][\A h \in Calls :
            /\ SendIssued(h) => streamCloses[h][currentStream[h]] = 0
            /\ RunStarts(h) =>
                  /\ streamCloses'[h][currentStream'[h]] = 0
                  /\ \/ /\ sup[h] = "preflight"
                        /\ currentStream[h] = 1 /\ streamCloses[h] = <<0>>
                     \/ /\ ReconnectedStep(h)
                        /\ streamCloses'[h] = Append(streamCloses[h], 0)
            /\ runErr[h] = "canceledStreamClosed" =>
                  sup'[h] \in {"returned", "term"}]_vars

\* C21 witness: the first stream was closed after a failure, and a Send has
\* succeeded on the second, unclosed stream of the following export.Run.
NoSendOnClosedStreamWitness ==
    \E h \in Calls :
        /\ sup[h] = "run"
        /\ currentStream[h] = 2 /\ streamCloses[h] = <<1, 0>>
        /\ upstream[h] # <<>> /\ Last(upstream[h]).op = "Send"

\* The context or the connection of call h is touched in this step.
ResourcesTouched(h) ==
    \/ ctxDone'[h] # ctxDone[h] \/ cancelCalls'[h] # cancelCalls[h]
    \/ conn'[h] # conn[h] \/ connCloses'[h] # connCloses[h]

\* This step is the cancel or the Close of a replacement, made under the
\* registry lock by a call for h's key while h is the registered holder.
ReplacementStepOn(h) ==
    \E c \in Calls \ {h} :
        /\ pc[c] \in {"cancelOld", "closeOld"} /\ pc'[c] # pc[c]
        /\ importsMu = c
        /\ cfg[c].key = cfg[h].key
        /\ imports[cfg[c].key] = h

============================================================================
